---- MODULE Spec2Model ----
(***************************************************************************)
(* Model of the caching middleware of http-caching.                        *)
(*                                                                         *)
(* Two engines live in the repository: the current one under               *)
(* core/src/core (engine = "core") and the earlier one under src/core      *)
(* (engine = "legacy").  A deployment runs one of them; Init chooses.      *)
(* Each handle_request invocation is a process; every .await of the code   *)
(* (store get/put/delete, read_remote_headers, body) is one atomic step,   *)
(* and the synchronous code between two awaits belongs to the step of the  *)
(* await that precedes it.                                                 *)
(***************************************************************************)
EXTENDS Integers, Sequences, FiniteSets, TLC

(* ------------------------------------------------------------------ *)
(* Bounds and input domains                                            *)
(* ------------------------------------------------------------------ *)

\* total number of handle_request invocations begun in one behaviour
MaxInvocations == 2

\* concurrent callers of handle_request
Procs == {"p1", "p2"}

\* Option<T>: None is the empty sequence, Some(x) the one-element sequence
None == <<>>
Some(x) == <<x>>
IsSome(o) == o # <<>>
Unwrap(o) == o[1]

\* the additional_parameters value of the configuration
Params == "params"

\* requests offered by the callers
Requests == {"r0", "ra", "rb"}

\* CacheRequestKey: NoKey | Key(String)
NoKey == None
Key(s) == Some(s)
Keys == {"a", "b"}

\* the key function installed in the configuration: "r0" is not cacheable
KeyFn(r, params) ==
    CASE r = "r0" -> NoKey
      [] r = "ra" -> Key("a")
      [] r = "rb" -> Key("b")

\* CacheKeepPolicy
KeepPolicies == {"Skip", "Keep", "Update", "Evict"}
LegacyKeepPolicies == {"Keep", "Update", "Evict"}

\* the keep function installed in the configuration: one that decides case by
\* case, or the constant function that answers Keep whatever it is given;
\* "unset" is the legacy engine's cache_keep_fn: None
KeepFns == {"decides", "always_keep"}
KeepFnAnswers(f, policies) == IF f = "always_keep" THEN {"Keep"} ELSE policies

\* CacheTime values: what the time source returns, what the policy sets as date
Times == {"t1", "t2"}
ExpirationDates == {"t3"}

\* CacheResponseExpiration
NoCache == [tag |-> "NoCache", date |-> None]
CacheWithoutExpirationDate == [tag |-> "CacheWithoutExpirationDate", date |-> None]
CacheWithExpirationDate(t) == [tag |-> "CacheWithExpirationDate", date |-> Some(t)]
Expirations ==
    {NoCache, CacheWithoutExpirationDate} \cup {CacheWithExpirationDate(t) : t \in ExpirationDates}

\* what the remote answers: the part read by read_remote_headers ...
RemoteHeads ==
    { [version |-> "HTTP/1.1", status |-> 200, reason |-> "OK", url |-> "u", headers |-> "h"] }
\* ... and the bytes a later body() transfers
RemoteBodies == {"x"}
EmptyBody == ""

\* HTTPResponse
HTTPResponse(head, body) ==
    [version |-> head.version, status |-> head.status, reason |-> head.reason,
     url |-> head.url, headers |-> head.headers, body |-> body]

\* CacheData
CacheData(ts, exp, req, resp) ==
    [call_timestamp |-> ts, expiration_time |-> exp,
     http_request |-> req, http_response |-> resp]

\* a record some earlier deployment left in the store
SeedRecord ==
    CacheData("t0", None, "r-seed",
              [version |-> "HTTP/1.0", status |-> 203, reason |-> "seed", url |-> "u",
               headers |-> "h0", body |-> "s"])

\* error values handed back by the collaborators
StoreError == "StoreError"
FetchError == "FetchError"

VARIABLES
    engine,             \* which engine the deployment runs
    config,             \* which optional policy functions are configured
    store,              \* the cache manager's content: key -> Option<CacheData>
    lastMut,            \* per key, the invocation whose put/delete was applied last
    started,            \* invocations begun so far
    pc,                 \* per invocation: the await it is suspended at
    request,            \* per invocation: the request argument
    cache_key,          \* per invocation: the derived key
    cache_keep,         \* per invocation: Option<CacheKeepPolicy>
    remote_response,    \* per invocation: the handle returned by read_remote_headers
    cache_policy,       \* per invocation: Option of the expiration decision
    remote_response_with_body, \* per invocation: Option of the response with its body
    new_cache_data,     \* per invocation: Option of the record handed to put
    calls,              \* per invocation: the collaborator and policy calls made so far
    result,             \* per invocation: what handle_request returned
    status,             \* the u16 status handed to common_status_category
    category            \* Option of the HttpResponseStatus it returned

vars == <<engine, config, store, lastMut, started, pc, request, cache_key, cache_keep,
          remote_response, cache_policy, remote_response_with_body,
          new_cache_data, calls, result, status, category>>

(* ------------------------------------------------------------------ *)
(* Results                                                             *)
(* ------------------------------------------------------------------ *)

Pending == [kind |-> "pending", response |-> None, outcome |-> "-"]
Ok(resp, outcome) == [kind |-> "ok", response |-> resp, outcome |-> outcome]
Err(e) == [kind |-> "err", response |-> None, outcome |-> e]

\* one entry of calls[p]
Call(op, args, ok, val) == [op |-> op, args |-> args, ok |-> ok, val |-> val]

\* a variant that makes the first calls a second time
Sequenced_Retried(first, then) == (first \o first) \o then

\* a variant that makes the later calls first
Sequenced_Reversed(first, then) == then \o first

\* statement order: the calls of first are made, then those of then
Sequenced(first, then) == first \o then

\* a variant that swallows the failure and reports the cache as off
PropagateError_Swallow(e) == Ok(None, "CacheOff")

\* the ? operator on a failed await: the error is the result of handle_request
PropagateError(e) == Err(e)

(* ------------------------------------------------------------------ *)
(* The cache manager (trait CacheManager)                              *)
(* ------------------------------------------------------------------ *)

StoreGet(s, k) == s[k]
\* a variant that replaces a record and does not create one
StorePut_OnlyOverwrites(s, k, data) ==
    [s EXCEPT ![k] = IF IsSome(@) THEN Some(data) ELSE None]

StorePut(s, k, data) == [s EXCEPT ![k] = Some(data)]
StoreDelete(s, k) == [s EXCEPT ![k] = None]

(* ------------------------------------------------------------------ *)
(* The synchronous fragments of Middleware::handle_request (core)      *)
(* ------------------------------------------------------------------ *)

\* a variant that reports the NoKey return as a miss
NoKeyResult_Miss == Ok(None, "CacheMiss")

\* let CacheRequestKey::Key(cache_key) = key_fn(..) else { return Ok((None, CacheOff)) }
NoKeyResult == Ok(None, "CacheOff")

\* a variant that never consults the keep function
CacheKeepOf_Never(cache_data_opt, answer) == None

\* cache_data_opt.as_ref().map(|cache_data| cache_keep_fn(...))
CacheKeepOf(cache_data_opt, answer) ==
    IF IsSome(cache_data_opt) THEN Some(answer) ELSE None

\* a variant that does not pass the record's expiration_time on
KeepArgs_NoExpiration(req, cache_data) ==
    <<req, cache_data.http_response, cache_data.call_timestamp, None, Params>>

\* the arguments the keep function receives
KeepArgs(req, cache_data) ==
    <<req, cache_data.http_response, cache_data.call_timestamp,
      cache_data.expiration_time, Params>>

\* a variant that serves the record to the first invocation only and fetches
\* for every later one
AfterKeep_LaterOnesFetch(keep) ==
    CASE keep = Some("Skip") -> "return"
      [] keep = Some("Keep") -> IF started > 1 THEN "headers" ELSE "return"
      [] keep = Some("Evict") -> "delete"
      [] keep = Some("Update") -> "headers"
      [] keep = None -> "headers"

\* a variant whose Update arm goes back to the get
AfterKeep_UpdateLoops(keep) ==
    CASE keep = Some("Skip") -> "return"
      [] keep = Some("Keep") -> "return"
      [] keep = Some("Evict") -> "delete"
      [] keep = Some("Update") -> "get"
      [] keep = None -> "headers"

\* a variant whose Keep arm goes on to delete the record
AfterKeep_KeepDeletes(keep) ==
    CASE keep = Some("Skip") -> "return"
      [] keep = Some("Keep") -> "delete"
      [] keep = Some("Evict") -> "delete"
      [] keep = Some("Update") -> "headers"
      [] keep = None -> "headers"

\* a variant whose Skip arm falls through to the fetch
AfterKeep_SkipFetches(keep) ==
    CASE keep = Some("Skip") -> "headers"
      [] keep = Some("Keep") -> "return"
      [] keep = Some("Evict") -> "delete"
      [] keep = Some("Update") -> "headers"
      [] keep = None -> "headers"

\* a variant whose Update arm deletes the record
AfterKeep_UpdateDeletes(keep) ==
    CASE keep = Some("Skip") -> "return"
      [] keep = Some("Keep") -> "return"
      [] keep = Some("Evict") -> "delete"
      [] keep = Some("Update") -> "delete"
      [] keep = None -> "headers"

\* a variant whose Keep arm falls through to the fetch
AfterKeep_KeepFetches(keep) ==
    CASE keep = Some("Skip") -> "return"
      [] keep = Some("Keep") -> "headers"
      [] keep = Some("Evict") -> "delete"
      [] keep = Some("Update") -> "headers"
      [] keep = None -> "headers"

\* a variant whose Evict arm falls through to the fetch without deleting
AfterKeep_EvictFetches(keep) ==
    CASE keep = Some("Skip") -> "return"
      [] keep = Some("Keep") -> "return"
      [] keep = Some("Evict") -> "headers"
      [] keep = Some("Update") -> "headers"
      [] keep = None -> "headers"

\* match cache_keep: where the invocation goes next
AfterKeep(keep) ==
    CASE keep = Some("Skip") -> "return"
      [] keep = Some("Keep") -> "return"
      [] keep = Some("Evict") -> "delete"
      [] keep = Some("Update") -> "headers"
      [] keep = None -> "headers"

\* a variant whose Keep arm returns the stored response without its body
KeepResult_NoBody(keep, cache_data_opt) ==
    CASE keep = Some("Skip") -> Ok(None, "CacheOff")
      [] keep = Some("Keep") ->
            Ok(Some([Unwrap(cache_data_opt).http_response EXCEPT !.body = EmptyBody]),
               "CacheHit")
      [] OTHER -> Pending

\* match cache_keep: what the returning arms return
KeepResult(keep, cache_data_opt) ==
    CASE keep = Some("Skip") -> Ok(None, "CacheOff")
      [] keep = Some("Keep") -> Ok(Some(Unwrap(cache_data_opt).http_response), "CacheHit")
      [] OTHER -> Pending

\* the Evict arm after a successful delete
EvictResult == Ok(None, "CacheEvict")

\* a variant that hands the expiration function a response with a body
RemoteResponseNoBody_Filled(remote) == HTTPResponse(remote.head, "x")

\* remote_response_no_body
RemoteResponseNoBody(remote) == HTTPResponse(remote.head, EmptyBody)

\* remote_response_with_body
RemoteResponseWithBody(no_body, body) ==
    [no_body EXCEPT !.body = body]

\* a variant whose default, with no expiration function, is to cache
CachePolicyOf_DefaultCaches(policy_fn_set, answer) ==
    IF policy_fn_set THEN answer ELSE CacheWithoutExpirationDate

\* match &cache_config.cache_policy_fn
CachePolicyOf(policy_fn_set, answer) ==
    IF policy_fn_set THEN answer ELSE NoCache

\* a variant that takes every decision for NoCache
IsNoCache_Always(policy) == TRUE

\* a variant without the early return of the NoCache arm
IsNoCache_Never(policy) == FALSE

\* let expiration_time = match cache_policy: does the NoCache arm return?
IsNoCache(policy) == policy.tag = "NoCache"

\* a variant whose NoCache arm hands no response back
NoCacheResult_NoResponse(with_body) == Ok(None, "CacheOff")

\* the NoCache arm: return Ok((Some(remote_response_with_body), CacheOff))
NoCacheResult(with_body) == Ok(Some(with_body), "CacheOff")

\* a variant that loses the date of CacheWithExpirationDate
ExpirationTime_DropsDate(policy) == None

\* let expiration_time = match cache_policy: the value of the other arms
ExpirationTime(policy) ==
    CASE policy.tag = "CacheWithoutExpirationDate" -> None
      [] policy.tag = "CacheWithExpirationDate" -> policy.date
      [] OTHER -> None

\* a variant that reads the time before the match on the expiration decision
TimeNowCall_Eager(policy, now) == <<Call("time_now_fn", <<>>, TRUE, Some(now))>>

\* (cache_config.time_now_fn)(): evaluated when the record is built, which the
\* NoCache arm never reaches
TimeNowCall(policy, now) ==
    IF IsNoCache(policy) THEN <<>> ELSE <<Call("time_now_fn", <<>>, TRUE, Some(now))>>

\* a variant that stores the response the expiration function was given
NewCacheData_HeadersOnly(now, policy, req, with_body) ==
    CacheData(now, ExpirationTime(policy), req, [with_body EXCEPT !.body = EmptyBody])

\* let new_cache_data = CacheData { .. }
NewCacheData(now, policy, req, with_body) ==
    CacheData(now, ExpirationTime(policy), req, with_body)

\* a variant with the two arms exchanged
CacheHitResultOf_Swapped(keep) ==
    IF keep = Some("Update") THEN "CacheMiss" ELSE "CacheUpdate"

\* let cache_hit_result = if matches!(cache_keep, Some(Update)) ..
CacheHitResultOf(keep) ==
    IF keep = Some("Update") THEN "CacheUpdate" ELSE "CacheMiss"

(* ------------------------------------------------------------------ *)
(* Initial state                                                       *)
(* ------------------------------------------------------------------ *)

\* the store starts empty, or with the record left under "a"
InitStores == {s \in [Keys -> {None, Some(SeedRecord)}] : s["b"] = None}

Configs ==
    { c \in [engine : {"core", "legacy"}, key_fn : BOOLEAN,
             cache_keep_fn : KeepFns \cup {"unset"}, cache_policy_fn : BOOLEAN] :
        c.engine = "core" => (c.key_fn /\ c.cache_keep_fn # "unset") }

Init ==
    /\ \E c \in Configs :
          /\ engine = c.engine
          /\ config = [key_fn |-> c.key_fn, cache_keep_fn |-> c.cache_keep_fn,
                       cache_policy_fn |-> c.cache_policy_fn]
    /\ store \in InitStores
    /\ lastMut = [k \in Keys |-> "-"]
    /\ started = 0
    /\ pc = [p \in Procs |-> "idle"]
    /\ request = [p \in Procs |-> "-"]
    /\ cache_key = [p \in Procs |-> NoKey]
    /\ cache_keep = [p \in Procs |-> None]
    /\ remote_response = [p \in Procs |-> None]
    /\ cache_policy = [p \in Procs |-> None]
    /\ remote_response_with_body = [p \in Procs |-> None]
    /\ new_cache_data = [p \in Procs |-> None]
    /\ calls = [p \in Procs |-> <<>>]
    /\ result = [p \in Procs |-> Pending]
    /\ status = 0
    /\ category = None

(* ------------------------------------------------------------------ *)
(* Middleware::handle_request, core engine                             *)
(* ------------------------------------------------------------------ *)

\* the invocation leaves handle_request with result res
Finish(p, res) ==
    /\ pc' = [pc EXCEPT ![p] = "done"]
    /\ result' = [result EXCEPT ![p] = res]

\* a caller invokes handle_request: the key is derived, NoKey returns at once
HandleRequest(p) ==
    /\ engine = "core"
    /\ pc[p] = "idle"
    /\ started < MaxInvocations
    /\ \E r \in Requests :
          LET k == KeyFn(r, Params) IN
          /\ started' = started + 1
          /\ request' = [request EXCEPT ![p] = r]
          /\ cache_key' = [cache_key EXCEPT ![p] = k]
          /\ calls' = [calls EXCEPT ![p] = <<Call("key_fn", <<r, Params>>, TRUE, k)>>]
          /\ IF k = NoKey
                THEN Finish(p, NoKeyResult)
                ELSE /\ pc' = [pc EXCEPT ![p] = "get"]
                     /\ result' = [result EXCEPT ![p] = Pending]
    /\ UNCHANGED <<status, category, engine, config, store, lastMut, cache_keep,
                   remote_response, cache_policy, remote_response_with_body,
                   new_cache_data>>

\* cache_manager.get(&cache_key).await?, then the keep decision and its match
Get(p) ==
    /\ engine = "core"
    /\ pc[p] = "get"
    /\ LET k == Unwrap(cache_key[p]) IN
       \/ \* the store fails
          /\ calls' = [calls EXCEPT ![p] = Append(@, Call("get", <<k>>, FALSE, None))]
          /\ Finish(p, PropagateError(StoreError))
          /\ UNCHANGED cache_keep
       \/ \E answer \in KeepFnAnswers(config.cache_keep_fn, KeepPolicies) :
          LET cache_data_opt == StoreGet(store, k)
              keep == CacheKeepOf(cache_data_opt, answer)
              got == Call("get", <<k>>, TRUE, cache_data_opt)
              asked == IF IsSome(keep)
                          THEN <<Call("cache_keep_fn",
                                      KeepArgs(request[p], Unwrap(cache_data_opt)),
                                      TRUE, Unwrap(keep))>>
                          ELSE <<>>
          IN
          /\ cache_keep' = [cache_keep EXCEPT ![p] = keep]
          /\ calls' = [calls EXCEPT ![p] = @ \o Sequenced(<<got>>, asked)]
          /\ IF AfterKeep(keep) = "return"
                THEN Finish(p, KeepResult(keep, cache_data_opt))
                ELSE /\ pc' = [pc EXCEPT ![p] = AfterKeep(keep)]
                     /\ UNCHANGED result
    /\ UNCHANGED <<status, category, engine, config, store, lastMut, started, request, cache_key,
                   remote_response, cache_policy, remote_response_with_body,
                   new_cache_data>>

\* cache_manager.delete(&cache_key).await?; return Ok((None, CacheEvict))
Delete(p) ==
    /\ engine = "core"
    /\ pc[p] = "delete"
    /\ LET k == Unwrap(cache_key[p]) IN
       \/ /\ calls' = [calls EXCEPT ![p] = Append(@, Call("delete", <<k>>, FALSE, None))]
          /\ Finish(p, PropagateError(StoreError))
          /\ UNCHANGED <<store, lastMut>>
       \/ /\ calls' = [calls EXCEPT ![p] =
                          Append(@, Call("delete", <<k>>, TRUE, StoreGet(store, k)))]
          /\ store' = StoreDelete(store, k)
          /\ lastMut' = [lastMut EXCEPT ![k] = p]
          /\ Finish(p, EvictResult)
    /\ UNCHANGED <<status, category, engine, config, started, request, cache_key, cache_keep,
                   remote_response, cache_policy, remote_response_with_body,
                   new_cache_data>>

\* remote_caller.read_remote_headers(request).await?, then the expiration decision
ReadRemoteHeaders(p) ==
    /\ engine = "core"
    /\ pc[p] = "headers"
    /\ \/ /\ calls' = [calls EXCEPT ![p] =
                          Append(@, Call("read_remote_headers", <<request[p]>>, FALSE, None))]
          /\ Finish(p, PropagateError(FetchError))
          /\ UNCHANGED <<remote_response, cache_policy>>
       \/ \E head \in RemoteHeads, answer \in Expirations :
          LET remote == [head |-> head]
              no_body == RemoteResponseNoBody(remote)
              policy == CachePolicyOf(config.cache_policy_fn, answer)
              read == Call("read_remote_headers", <<request[p]>>, TRUE, Some(head))
              asked == IF config.cache_policy_fn
                          THEN <<Call("cache_policy_fn", <<request[p], no_body, Params>>,
                                      TRUE, policy)>>
                          ELSE <<>>
          IN
          /\ remote_response' = [remote_response EXCEPT ![p] = Some(remote)]
          /\ cache_policy' = [cache_policy EXCEPT ![p] = Some(policy)]
          /\ calls' = [calls EXCEPT ![p] = @ \o Sequenced(<<read>>, asked)]
          /\ pc' = [pc EXCEPT ![p] = "body"]
          /\ UNCHANGED result
    /\ UNCHANGED <<status, category, engine, config, store, lastMut, started, request, cache_key,
                   cache_keep, remote_response_with_body, new_cache_data>>

\* remote_response.body().await?, then the NoCache return or the new record
Body(p) ==
    /\ engine = "core"
    /\ pc[p] = "body"
    /\ \/ /\ calls' = [calls EXCEPT ![p] = Append(@, Call("body", <<>>, FALSE, None))]
          /\ Finish(p, PropagateError(FetchError))
          /\ UNCHANGED <<remote_response_with_body, new_cache_data>>
       \/ \E bytes \in RemoteBodies, now \in Times :
          LET policy == Unwrap(cache_policy[p])
              no_body == RemoteResponseNoBody(Unwrap(remote_response[p]))
              with_body == RemoteResponseWithBody(no_body, bytes)
              read == Call("body", <<>>, TRUE, Some(bytes))
              data == NewCacheData(now, policy, request[p], with_body)
          IN
          /\ remote_response_with_body' =
                 [remote_response_with_body EXCEPT ![p] = Some(with_body)]
          /\ calls' = [calls EXCEPT ![p] =
                           @ \o Sequenced(<<read>>, TimeNowCall(policy, now))]
          /\ IF IsNoCache(policy)
                THEN /\ Finish(p, NoCacheResult(with_body))
                     /\ UNCHANGED new_cache_data
                ELSE /\ new_cache_data' = [new_cache_data EXCEPT ![p] = Some(data)]
                     /\ pc' = [pc EXCEPT ![p] = "put"]
                     /\ UNCHANGED result
    /\ UNCHANGED <<status, category, engine, config, store, lastMut, started, request, cache_key,
                   cache_keep, remote_response, cache_policy>>

\* cache_manager.put(&cache_key, &new_cache_data).await?, then the final Ok
Put(p) ==
    /\ engine = "core"
    /\ pc[p] = "put"
    /\ LET k == Unwrap(cache_key[p])
           data == Unwrap(new_cache_data[p])
       IN
       \/ /\ calls' = [calls EXCEPT ![p] = Append(@, Call("put", <<k, data>>, FALSE, None))]
          /\ Finish(p, PropagateError(StoreError))
          /\ UNCHANGED <<store, lastMut>>
       \/ /\ calls' = [calls EXCEPT ![p] = Append(@, Call("put", <<k, data>>, TRUE, None))]
          /\ store' = StorePut(store, k, data)
          /\ lastMut' = [lastMut EXCEPT ![k] = p]
          /\ Finish(p, Ok(remote_response_with_body[p], CacheHitResultOf(cache_keep[p])))
    /\ UNCHANGED <<status, category, engine, config, started, request, cache_key, cache_keep,
                   remote_response, cache_policy, remote_response_with_body,
                   new_cache_data>>

(* ------------------------------------------------------------------ *)
(* Middleware::handle_request, legacy engine (src/core/middleware.rs)  *)
(* ------------------------------------------------------------------ *)

\* a variant whose default, with no keep function, is Update
process_cache_hit_DefaultUpdate(cache_data_opt, cache_keep_fn, answer) ==
    IF ~IsSome(cache_data_opt)
        THEN None
        ELSE Some(IF cache_keep_fn = "unset" THEN "Update" ELSE answer)

\* fn process_cache_hit
process_cache_hit(cache_data_opt, cache_keep_fn, answer) ==
    IF ~IsSome(cache_data_opt)
        THEN None
        ELSE Some(IF cache_keep_fn = "unset" THEN "Keep" ELSE answer)

\* the arguments the legacy keep function receives
LegacyKeepArgs(req, cache_data) ==
    <<req, cache_data.http_response, cache_data.expiration_time, Params>>

\* match cache_keep of the legacy engine: where the invocation goes next
LegacyAfterKeep(keep) ==
    CASE keep = Some("Keep") -> "return"
      [] keep = Some("Evict") -> "return"
      [] OTHER -> "headers"

\* match cache_keep of the legacy engine: what the returning arms return
LegacyKeepResult(keep, cache_data_opt) ==
    CASE keep = Some("Keep") -> Ok(Some(Unwrap(cache_data_opt).http_response), "CacheHit")
      [] keep = Some("Evict") -> Ok(None, "CacheEvict")
      [] OTHER -> Pending

\* a caller invokes the legacy handle_request
LegacyHandleRequest(p) ==
    /\ engine = "legacy"
    /\ pc[p] = "idle"
    /\ started < MaxInvocations
    /\ \E r \in Requests :
          /\ started' = started + 1
          /\ request' = [request EXCEPT ![p] = r]
          /\ IF ~config.key_fn
                THEN /\ calls' = [calls EXCEPT ![p] = <<>>]
                     /\ cache_key' = [cache_key EXCEPT ![p] = NoKey]
                     /\ Finish(p, NoKeyResult)
                ELSE LET k == KeyFn(r, Params) IN
                     /\ calls' = [calls EXCEPT ![p] =
                                     <<Call("key_fn", <<r, Params>>, TRUE, k)>>]
                     /\ cache_key' = [cache_key EXCEPT ![p] = k]
                     /\ IF k = NoKey
                           THEN Finish(p, NoKeyResult)
                           ELSE /\ pc' = [pc EXCEPT ![p] = "get"]
                                /\ result' = [result EXCEPT ![p] = Pending]
    /\ UNCHANGED <<status, category, engine, config, store, lastMut, cache_keep,
                   remote_response, cache_policy, remote_response_with_body,
                   new_cache_data>>

\* cache_manager.get(&cache_key).await?, process_cache_hit and the match; the
\* future of delete is built and dropped without being awaited
LegacyGet(p) ==
    /\ engine = "legacy"
    /\ pc[p] = "get"
    /\ LET k == Unwrap(cache_key[p]) IN
       \/ /\ calls' = [calls EXCEPT ![p] = Append(@, Call("get", <<k>>, FALSE, None))]
          /\ Finish(p, PropagateError(StoreError))
          /\ UNCHANGED cache_keep
       \/ \E answer \in KeepFnAnswers(config.cache_keep_fn, LegacyKeepPolicies) :
          LET cache_data_opt == StoreGet(store, k)
              keep == process_cache_hit(cache_data_opt, config.cache_keep_fn, answer)
              got == Call("get", <<k>>, TRUE, cache_data_opt)
              asked == IF IsSome(cache_data_opt) /\ config.cache_keep_fn # "unset"
                          THEN <<Call("cache_keep_fn",
                                      LegacyKeepArgs(request[p], Unwrap(cache_data_opt)),
                                      TRUE, Unwrap(keep))>>
                          ELSE <<>>
              dropped == IF keep = Some("Evict")
                            THEN <<Call("delete_unawaited", <<k>>, TRUE, None)>>
                            ELSE <<>>
          IN
          /\ cache_keep' = [cache_keep EXCEPT ![p] = keep]
          /\ calls' = [calls EXCEPT ![p] = @ \o Sequenced(Sequenced(<<got>>, asked), dropped)]
          /\ IF LegacyAfterKeep(keep) = "return"
                THEN Finish(p, LegacyKeepResult(keep, cache_data_opt))
                ELSE /\ pc' = [pc EXCEPT ![p] = LegacyAfterKeep(keep)]
                     /\ UNCHANGED result
    /\ UNCHANGED <<status, category, engine, config, store, lastMut, started, request, cache_key,
                   remote_response, cache_policy, remote_response_with_body,
                   new_cache_data>>

\* remote_caller.read_remote_headers(request).await? and the rest of the legacy
\* function: the policy, the clock read, the future of put built and dropped
LegacyReadRemoteHeaders(p) ==
    /\ engine = "legacy"
    /\ pc[p] = "headers"
    /\ \/ /\ calls' = [calls EXCEPT ![p] =
                          Append(@, Call("read_remote_headers", <<request[p]>>, FALSE, None))]
          /\ Finish(p, PropagateError(FetchError))
          /\ UNCHANGED <<remote_response, cache_policy, new_cache_data>>
       \/ \E head \in RemoteHeads, bytes \in RemoteBodies \cup {EmptyBody},
             answer \in Expirations, now \in Times :
          LET k == Unwrap(cache_key[p])
              remote == HTTPResponse(head, bytes)
              policy == CachePolicyOf(config.cache_policy_fn, answer)
              data == NewCacheData(now, policy, request[p], remote)
              read == Call("read_remote_headers", <<request[p]>>, TRUE, Some(remote))
              asked == IF config.cache_policy_fn
                          THEN <<Call("cache_policy_fn", <<request[p], remote, Params>>,
                                      TRUE, policy)>>
                          ELSE <<>>
          IN
          /\ remote_response' = [remote_response EXCEPT ![p] = Some(remote)]
          /\ cache_policy' = [cache_policy EXCEPT ![p] = Some(policy)]
          /\ IF IsNoCache(policy)
                THEN /\ calls' = [calls EXCEPT ![p] = @ \o Sequenced(<<read>>, asked)]
                     /\ Finish(p, Ok(Some(remote), "CacheOff"))
                     /\ UNCHANGED new_cache_data
                ELSE /\ calls' = [calls EXCEPT ![p] =
                                     @ \o Sequenced(Sequenced(<<read>>, asked),
                                         << Call("utc_now", <<>>, TRUE, Some(now)),
                                            Call("put_unawaited", <<k, data>>, TRUE, None) >>)]
                     /\ new_cache_data' = [new_cache_data EXCEPT ![p] = Some(data)]
                     /\ Finish(p, Ok(Some(remote), CacheHitResultOf(cache_keep[p])))
    /\ UNCHANGED <<status, category, engine, config, store, lastMut, started, request, cache_key,
                   cache_keep, remote_response_with_body>>

\* the caller has taken the result; the invocation's frame is gone
Return(p) ==
    /\ pc[p] = "done"
    /\ pc' = [pc EXCEPT ![p] = "idle"]
    /\ request' = [request EXCEPT ![p] = "-"]
    /\ cache_key' = [cache_key EXCEPT ![p] = NoKey]
    /\ cache_keep' = [cache_keep EXCEPT ![p] = None]
    /\ remote_response' = [remote_response EXCEPT ![p] = None]
    /\ cache_policy' = [cache_policy EXCEPT ![p] = None]
    /\ remote_response_with_body' = [remote_response_with_body EXCEPT ![p] = None]
    /\ new_cache_data' = [new_cache_data EXCEPT ![p] = None]
    /\ calls' = [calls EXCEPT ![p] = <<>>]
    /\ result' = [result EXCEPT ![p] = Pending]
    /\ UNCHANGED <<status, category, engine, config, store, lastMut, started>>

Next ==
    \E p \in Procs :
        \/ HandleRequest(p)
        \/ Get(p)
        \/ Delete(p)
        \/ ReadRemoteHeaders(p)
        \/ Body(p)
        \/ Put(p)
        \/ LegacyHandleRequest(p)
        \/ LegacyGet(p)
        \/ LegacyReadRemoteHeaders(p)
        \/ Return(p)

Spec == Init /\ [][Next]_vars

\* the await an invocation is suspended at completes: the store, the fetcher
\* and the policy functions return
AwaitStep(p) ==
    \/ Get(p)
    \/ Delete(p)
    \/ ReadRemoteHeaders(p)
    \/ Body(p)
    \/ Put(p)
    \/ LegacyGet(p)
    \/ LegacyReadRemoteHeaders(p)

\* every call that an invocation awaits returns in the end; callers are free
\* to start invocations and to take results or not
Fairness == \A p \in Procs : WF_vars(AwaitStep(p))

LiveSpec == Init /\ [][Next]_vars /\ Fairness

(* ------------------------------------------------------------------ *)
(* common_status_category (http.rs)                                    *)
(* ------------------------------------------------------------------ *)

\* the width of the status field: status is a u16
StatusBits == 16
Statuses == 0 .. (2^StatusBits - 1)

\* enum HttpResponseStatus
HttpResponseStatus ==
    {"Status1xx", "Status2xx", "Status3xx", "Status4xx", "Status5xx", "StatusUnknown"}

\* a variant whose ranges include their upper end
common_status_category_Inclusive(s) ==
    CASE 100 <= s /\ s <= 200 -> "Status1xx"
      [] 200 < s /\ s <= 300 -> "Status2xx"
      [] 300 < s /\ s <= 400 -> "Status3xx"
      [] 400 < s /\ s <= 500 -> "Status4xx"
      [] 500 < s /\ s <= 600 -> "Status5xx"
      [] OTHER -> "StatusUnknown"

\* fn common_status_category: match on the half-open ranges 100..200 etc.
common_status_category(s) ==
    CASE 100 <= s /\ s < 200 -> "Status1xx"
      [] 200 <= s /\ s < 300 -> "Status2xx"
      [] 300 <= s /\ s < 400 -> "Status3xx"
      [] 400 <= s /\ s < 500 -> "Status4xx"
      [] 500 <= s /\ s < 600 -> "Status5xx"
      [] OTHER -> "StatusUnknown"

\* a response with any status, no handle_request invocation under way
StatusInit ==
    /\ engine = "core"
    /\ config = [key_fn |-> TRUE, cache_keep_fn |-> "decides", cache_policy_fn |-> TRUE]
    /\ store = [k \in Keys |-> None]
    /\ lastMut = [k \in Keys |-> "-"]
    /\ started = 0
    /\ pc = [p \in Procs |-> "idle"]
    /\ request = [p \in Procs |-> "-"]
    /\ cache_key = [p \in Procs |-> NoKey]
    /\ cache_keep = [p \in Procs |-> None]
    /\ remote_response = [p \in Procs |-> None]
    /\ cache_policy = [p \in Procs |-> None]
    /\ remote_response_with_body = [p \in Procs |-> None]
    /\ new_cache_data = [p \in Procs |-> None]
    /\ calls = [p \in Procs |-> <<>>]
    /\ result = [p \in Procs |-> Pending]
    /\ status \in Statuses
    /\ category = None

\* HttpResponse::status_category: common_status_category(self.status())
StatusCategory ==
    /\ category = None
    /\ category' = Some(common_status_category(status))
    /\ UNCHANGED <<status, engine, config, store, lastMut, started, pc, request,
                   cache_key, cache_keep, remote_response, cache_policy,
                   remote_response_with_body, new_cache_data, calls, result>>

StatusNext == StatusCategory

StatusSpec == StatusInit /\ [][StatusNext]_vars

(* ------------------------------------------------------------------ *)
(* Reading the calls of an invocation                                  *)
(* ------------------------------------------------------------------ *)

Done(p) == pc[p] = "done"
Called(p, op) == \E i \in DOMAIN calls[p] : calls[p][i].op = op
Count(p, op) == Cardinality({i \in DOMAIN calls[p] : calls[p][i].op = op})
EventOf(p, op) == calls[p][CHOOSE i \in DOMAIN calls[p] : calls[p][i].op = op]
AllOk(p) == \A i \in DOMAIN calls[p] : calls[p][i].ok

\* the key function yielded NoKey / a key
YieldedNoKey(p) == Called(p, "key_fn") /\ EventOf(p, "key_fn").val = NoKey
Keyed(p) == Called(p, "key_fn") /\ EventOf(p, "key_fn").val # NoKey
KeyOf(p) == Unwrap(EventOf(p, "key_fn").val)

\* what store.get returned, when it returned
GotRecord(p) == Called(p, "get") /\ EventOf(p, "get").ok /\ IsSome(EventOf(p, "get").val)
GotNothing(p) == Called(p, "get") /\ EventOf(p, "get").ok /\ ~IsSome(EventOf(p, "get").val)
RecordGot(p) == Unwrap(EventOf(p, "get").val)

\* what the keep function answered, when it was asked
KeepSaid(p, d) == Called(p, "cache_keep_fn") /\ EventOf(p, "cache_keep_fn").val = d

\* the expiration decision of the invocation, once taken
Decided(p) == IsSome(cache_policy[p])
DecidedNoCache(p) == cache_policy[p] = Some(NoCache)
DecidedCacheable(p) == Decided(p) /\ ~DecidedNoCache(p)

StoreOps == {"get", "put", "delete"}
FetcherOps == {"read_remote_headers", "body"}
PolicyOps == {"cache_keep_fn", "cache_policy_fn", "time_now_fn"}

(* ------------------------------------------------------------------ *)
(* Properties                                                          *)
(* ------------------------------------------------------------------ *)

\* C1: when the key function yields NoKey, handle_request has returned
\* (None, CacheOff) and the key function is the only call it made: no store
\* operation, no fetcher operation, no keep, expiration or time-now call.
C1_NoKeyShortCircuit ==
    \A p \in Procs :
        YieldedNoKey(p) =>
            /\ Done(p)
            /\ result[p] = Ok(None, "CacheOff")
            /\ \A i \in DOMAIN calls[p] :
                  calls[p][i].op \notin StoreOps \cup FetcherOps \cup PolicyOps
            /\ Len(calls[p]) = 1

\* a NoKey invocation has returned while the store holds records
C1_Witness ==
    \E p \in Procs :
        /\ YieldedNoKey(p) /\ Done(p)
        /\ \E k \in Keys : IsSome(store[k])

\* the row of the outcome table an invocation falls in
C2_Row(p) ==
    CASE GotNothing(p) /\ DecidedNoCache(p) -> "CacheOff"
      [] GotNothing(p) /\ DecidedCacheable(p) -> "CacheMiss"
      [] GotRecord(p) /\ KeepSaid(p, "Update") /\ DecidedCacheable(p) -> "CacheUpdate"
      [] GotRecord(p) /\ KeepSaid(p, "Update") /\ DecidedNoCache(p) -> "CacheOff"
      [] GotRecord(p) /\ KeepSaid(p, "Keep") -> "CacheHit"
      [] GotRecord(p) /\ KeepSaid(p, "Evict") -> "CacheEvict"
      [] GotRecord(p) /\ KeepSaid(p, "Skip") -> "CacheOff"
      [] OTHER -> "no row"

\* C2: a returned invocation with a key and no failed collaborator call falls
\* in a row of the outcome table (record or not, keep decision, expiration
\* decision) and its outcome is the one of that row.
C2_OutcomeTable ==
    \A p \in Procs :
        (Done(p) /\ Keyed(p) /\ AllOk(p) /\ (GotRecord(p) => Called(p, "cache_keep_fn"))) =>
            /\ result[p].kind = "ok"
            /\ C2_Row(p) # "no row"
            /\ result[p].outcome = C2_Row(p)

\* one invocation returned CacheUpdate while another returned CacheMiss
C2_Witness ==
    \E p, q \in Procs :
        /\ Done(p) /\ AllOk(p) /\ result[p].outcome = "CacheUpdate"
        /\ Done(q) /\ AllOk(q) /\ result[q].outcome = "CacheMiss"

\* C3: when get returned a record and the keep function said Keep, the
\* invocation has returned (Some(response of that record), CacheHit) and made
\* no read_remote_headers, body, put or delete call.
C3_KeepServesStored ==
    \A p \in Procs :
        (GotRecord(p) /\ KeepSaid(p, "Keep")) =>
            /\ Done(p)
            /\ result[p] = Ok(Some(RecordGot(p).http_response), "CacheHit")
            /\ \A i \in DOMAIN calls[p] :
                  calls[p][i].op \notin
                      FetcherOps \cup {"put", "delete", "put_unawaited", "delete_unawaited"}

\* a hit on a record that an earlier invocation has put
C3_Witness ==
    \E p \in Procs :
        /\ GotRecord(p) /\ KeepSaid(p, "Keep") /\ Done(p)
        /\ RecordGot(p) # SeedRecord

StepOf(p) == calls'[p] # calls[p] \/ pc'[p] # pc[p]

\* C5, the state part: once the expiration decision is NoCache the invocation
\* never calls put (nor delete), also after a keep decision of Update, and
\* when it returns without failure it returns (Some(response with the body
\* read), CacheOff).
C5_NoCacheState ==
    \A p \in Procs :
        (engine = "core" /\ DecidedNoCache(p)) =>
            /\ ~Called(p, "put") /\ ~Called(p, "delete")
            /\ (Done(p) /\ AllOk(p)) =>
                  /\ Called(p, "body")
                  /\ result[p].kind = "ok"
                  /\ result[p].outcome = "CacheOff"
                  /\ IsSome(result[p].response)
                  /\ Unwrap(result[p].response) =
                        HTTPResponse(Unwrap(EventOf(p, "read_remote_headers").val),
                                     Unwrap(EventOf(p, "body").val))

\* C5, the step part: no step of an invocation whose expiration decision is
\* or becomes NoCache changes the store, so the record that was under the key
\* is left as it was.
C5_NoCacheStep ==
    \A p \in Procs :
        (engine = "core" /\ StepOf(p) /\ (DecidedNoCache(p) \/ DecidedNoCache(p)')) =>
            store' = store

InconsistentCacheState == "InconsistentCacheState"

\* C6: with a keep function that answers Keep whatever it is given, an
\* invocation whose get found no record has failed with
\* InconsistentCacheState; it does not go on as a cache miss.
C6_KeepWithoutRecordIsError ==
    \A p \in Procs :
        (config.cache_keep_fn = "always_keep" /\ GotNothing(p)) =>
            /\ Done(p)
            /\ result[p] = Err(InconsistentCacheState)

\* the place of a call in the dependency order of handle_request
Rank(op) ==
    CASE op = "get" -> 1
      [] op = "cache_keep_fn" -> 2
      [] op = "read_remote_headers" -> 3
      [] op = "cache_policy_fn" -> 4
      [] op = "body" -> 5
      [] op = "put" -> 6
      [] OTHER -> 0

\* C7: the calls of one invocation are made one after the other in the order
\* get, keep decision, read_remote_headers, expiration decision, body, put
\* (each at most once, each complete before the next), and body is called
\* only after a read_remote_headers that succeeded.
C7_CallOrder ==
    \A p \in Procs :
        /\ \A i, j \in DOMAIN calls[p] :
              (i < j /\ Rank(calls[p][i].op) > 0 /\ Rank(calls[p][j].op) > 0) =>
                  Rank(calls[p][i].op) < Rank(calls[p][j].op)
        /\ \A j \in DOMAIN calls[p] :
              calls[p][j].op = "body" =>
                  \E i \in 1..(j - 1) :
                      calls[p][i].op = "read_remote_headers" /\ calls[p][i].ok

\* an invocation has made all six calls
C7_Witness ==
    \E p \in Procs :
        /\ Done(p)
        /\ \A op \in {"get", "cache_keep_fn", "read_remote_headers", "cache_policy_fn",
                       "body", "put"} : Called(p, op)

\* the expiration_time the expiration decision d asks for
C8_Asked(d) ==
    IF d.tag = "CacheWithExpirationDate" THEN d.date ELSE None

\* C8: a record is handed to put only after the expiration function yielded
\* CacheWithExpirationDate(t) or CacheWithoutExpirationDate, and its
\* expiration_time is Some(t) in the first case and None in the second; once
\* the put is applied and nobody wrote the key since, that is the
\* expiration_time of the record in the store.
C8_ExpirationRoundTrip ==
    \A p \in Procs :
        \A i \in DOMAIN calls[p] :
            calls[p][i].op \in {"put", "put_unawaited"} =>
                /\ Called(p, "cache_policy_fn")
                /\ EventOf(p, "cache_policy_fn").val.tag \in
                      {"CacheWithExpirationDate", "CacheWithoutExpirationDate"}
                /\ calls[p][i].args[2].expiration_time =
                      C8_Asked(EventOf(p, "cache_policy_fn").val)
                /\ (calls[p][i].op = "put" /\ calls[p][i].ok /\ lastMut[KeyOf(p)] = p) =>
                      /\ IsSome(store[KeyOf(p)])
                      /\ Unwrap(store[KeyOf(p)]).expiration_time =
                            C8_Asked(EventOf(p, "cache_policy_fn").val)

\* a record with a date and a record without one are in the store
C8_Witness ==
    \E p, q \in Procs :
        /\ Called(p, "put") /\ EventOf(p, "put").ok /\ lastMut[KeyOf(p)] = p
        /\ EventOf(p, "cache_policy_fn").val = CacheWithExpirationDate("t3")
        /\ Unwrap(store[KeyOf(p)]).expiration_time = Some("t3")
        /\ Called(q, "put") /\ EventOf(q, "put").ok /\ lastMut[KeyOf(q)] = q
        /\ EventOf(q, "cache_policy_fn").val = CacheWithoutExpirationDate
        /\ Unwrap(store[KeyOf(q)]).expiration_time = None

\* the error a failed call of op is
ErrorOf(op) == IF op \in FetcherOps THEN FetchError ELSE StoreError

\* C9: a failed store or fetcher call is the last call of its invocation,
\* which has returned that error; an invocation returns an error only then.
\* So a failed get is followed by no fetch, a failed read_remote_headers by
\* no body and no put, a failed body by no put, and a failed delete does
\* not give CacheEvict.
C9_ErrorsPropagate ==
    \A p \in Procs :
        /\ \A i \in DOMAIN calls[p] :
              ~calls[p][i].ok =>
                  /\ calls[p][i].op \in StoreOps \cup FetcherOps
                  /\ i = Len(calls[p])
                  /\ Done(p)
                  /\ result[p] = Err(ErrorOf(calls[p][i].op))
        /\ result[p].kind = "err" =>
              /\ Len(calls[p]) > 0
              /\ ~calls[p][Len(calls[p])].ok

\* a put has failed in one invocation and a delete in another
C9_Witness ==
    \E p, q \in Procs :
        /\ Done(p) /\ Called(p, "put") /\ ~EventOf(p, "put").ok
        /\ Done(q) /\ Called(q, "delete") /\ ~EventOf(q, "delete").ok

\* C10: the keep function (of a configuration that has one) is called exactly
\* once in an invocation whose get returned a record, at once after the get,
\* and not at all in an invocation whose get returned no record, failed or
\* was not made.
C10_KeepOncePerHit ==
    \A p \in Procs :
        Count(p, "cache_keep_fn") =
            IF GotRecord(p) /\ config.cache_keep_fn # "unset" THEN 1 ELSE 0

\* one invocation is fetching after a keep decision on a record, another is
\* fetching after a get that found nothing
C10_Witness ==
    \E p, q \in Procs :
        /\ GotRecord(p) /\ Count(p, "cache_keep_fn") = 1 /\ pc[p] = "body"
        /\ GotNothing(q) /\ Count(q, "cache_keep_fn") = 0 /\ pc[q] = "body"

\* the place of the call of op in calls[p]
IndexOf(p, op) == CHOOSE i \in DOMAIN calls[p] : calls[p][i].op = op

\* read_remote_headers was called and succeeded
HeadersRead(p) ==
    Called(p, "read_remote_headers") /\ EventOf(p, "read_remote_headers").ok

\* the invocation is on the fetch path: no record, or a keep decision of Update
OnFetchPath(p) == GotNothing(p) \/ (GotRecord(p) /\ KeepSaid(p, "Update"))

\* the response the fetcher delivered: head and body in the core engine, the
\* response of read_remote_headers in the legacy one
Fetched(p) ==
    IF engine = "core"
        THEN HTTPResponse(Unwrap(EventOf(p, "read_remote_headers").val),
                          Unwrap(EventOf(p, "body").val))
        ELSE Unwrap(EventOf(p, "read_remote_headers").val)

\* C11: a configured expiration function is called exactly once in an
\* invocation whose read_remote_headers succeeded, at once after it and so
\* before the body read, and not at all otherwise; such an invocation is on
\* the fetch path (never NoKey, Skip, Keep or Evict), and in the core engine
\* the response the function receives is the head just read with an empty body.
C11_ExpirationOncePerFetch ==
    \A p \in Procs :
        /\ Count(p, "cache_policy_fn") =
              IF config.cache_policy_fn /\ HeadersRead(p) THEN 1 ELSE 0
        /\ Called(p, "cache_policy_fn") =>
              /\ IndexOf(p, "cache_policy_fn") = IndexOf(p, "read_remote_headers") + 1
              /\ Called(p, "body") => IndexOf(p, "cache_policy_fn") < IndexOf(p, "body")
              /\ OnFetchPath(p)
              /\ ~YieldedNoKey(p)
              /\ \A d \in {"Skip", "Keep", "Evict"} : ~KeepSaid(p, d)
              /\ engine = "core" =>
                    /\ EventOf(p, "cache_policy_fn").args[2].body = EmptyBody
                    /\ EventOf(p, "cache_policy_fn").args[2] =
                          HTTPResponse(Unwrap(EventOf(p, "read_remote_headers").val), EmptyBody)

\* after a keep decision of Update the expiration function has been asked and
\* the body read has not begun
C11_Witness ==
    \E p \in Procs :
        /\ engine = "core" /\ KeepSaid(p, "Update")
        /\ Count(p, "cache_policy_fn") = 1 /\ pc[p] = "body" /\ ~Called(p, "body")

\* C12: with no expiration function configured no invocation hands a record
\* to put, and an invocation that fetched without failure returns the fetched
\* response with CacheOff, as for a decision of NoCache.
C12_DefaultIsNoCache ==
    \A p \in Procs :
        ~config.cache_policy_fn =>
            /\ \A i \in DOMAIN calls[p] : calls[p][i].op \notin {"put", "put_unawaited"}
            /\ (Done(p) /\ AllOk(p) /\ HeadersRead(p)) =>
                  result[p] = Ok(Some(Fetched(p)), "CacheOff")

\* with no expiration function, a record under the key and keep saying
\* Update, the invocation has fetched and returned
C12_Witness ==
    \E p \in Procs :
        /\ ~config.cache_policy_fn /\ engine = "core"
        /\ KeepSaid(p, "Update") /\ Done(p) /\ AllOk(p) /\ Called(p, "body")
        /\ store[KeyOf(p)] = Some(RecordGot(p))

\* handle_request returned a response it fetched
ReturnedFetched(p) ==
    /\ Done(p) /\ result[p].kind = "ok"
    /\ \/ result[p].outcome \in {"CacheMiss", "CacheUpdate"}
       \/ result[p].outcome = "CacheOff" /\ Called(p, "read_remote_headers")

C14_RecordHoldsReturnedResponse ==
    \A p \in Procs :
        Called(p, "put") =>
            LET data == EventOf(p, "put").args[2] IN
            /\ data.http_request = request[p]
            /\ Called(p, "body") /\ EventOf(p, "body").ok
            /\ data.http_response = Fetched(p)
            /\ data.http_response.body = Unwrap(EventOf(p, "body").val)
            /\ data.http_response.body # EmptyBody
            /\ (Done(p) /\ EventOf(p, "put").ok) =>
                  /\ result[p].kind = "ok"
                  /\ result[p].response = Some(data.http_response)

\* an invocation has replaced the record under its key and returned
\* CacheUpdate
C14_Witness ==
    \E p \in Procs :
        /\ engine = "core" /\ Done(p)
        /\ Called(p, "put") /\ EventOf(p, "put").ok
        /\ result[p].outcome = "CacheUpdate"
        /\ store[KeyOf(p)] = Some(EventOf(p, "put").args[2])

\* C15: in each variant of handle_request the call_timestamp of a record
\* passed to put is the value the time-source function of the configuration
\* returned in that invocation, never a clock read by the engine.
C15_TimestampFromTimeSource ==
    \A p \in Procs :
        \A i \in DOMAIN calls[p] :
            calls[p][i].op \in {"put", "put_unawaited"} =>
                /\ Count(p, "time_now_fn") = 1
                /\ calls[p][i].args[2].call_timestamp =
                      Unwrap(EventOf(p, "time_now_fn").val)
                /\ ~Called(p, "utc_now")

\* C16, the state part (core engine): put has been called only after a
\* successful header read, an expiration decision other than NoCache and a
\* successful body read, delete only after a keep decision of Evict, and
\* both with the key derived from the request.
C16_WritesState ==
    \A p \in Procs :
        /\ Called(p, "put") =>
              /\ OnFetchPath(p) /\ HeadersRead(p)
              /\ DecidedCacheable(p)
              /\ Called(p, "body") /\ EventOf(p, "body").ok
              /\ IndexOf(p, "body") < IndexOf(p, "put")
              /\ Keyed(p) /\ EventOf(p, "put").args[1] = KeyOf(p)
              /\ KeyOf(p) = Unwrap(KeyFn(request[p], Params))
        /\ Called(p, "delete") =>
              /\ KeepSaid(p, "Evict")
              /\ Keyed(p) /\ EventOf(p, "delete").args = <<KeyOf(p)>>
              /\ KeyOf(p) = Unwrap(KeyFn(request[p], Params))

\* C16, the step part: a step of an invocation that changes the store is a
\* successful put or delete of that invocation, changes the entry of the
\* derived key only and leaves every other key as it was.
C16_WritesStep ==
    \A p \in Procs :
        (StepOf(p) /\ store' # store) =>
            /\ Keyed(p)
            /\ \A k \in Keys \ {KeyOf(p)} : store'[k] = store[k]
            /\ Len(calls'[p]) = Len(calls[p]) + 1
            /\ LET e == calls'[p][Len(calls'[p])] IN
               /\ e.op \in {"put", "delete"} /\ e.ok
               /\ e.args[1] = KeyOf(p)
               /\ store'[KeyOf(p)] = IF e.op = "put" THEN Some(e.args[2]) ELSE None

CanStep(p) ==
    ENABLED (Get(p) \/ Delete(p) \/ ReadRemoteHeaders(p) \/ Body(p) \/ Put(p))

\* C17 (core engine): the engine has no lock and no single flight. An
\* invocation that is under way can always take its next step, whatever the
\* other one is doing; every invocation that found no record and got a
\* cacheable decision has, when it returns without failure, called
\* read_remote_headers, body and put itself; and the record under a key is
\* the record of the put that was applied last.
C17_NoSingleFlight ==
    \A p \in Procs :
        engine = "core" =>
            /\ pc[p] \in {"get", "delete", "headers", "body", "put"} => CanStep(p)
            /\ (GotNothing(p) /\ DecidedCacheable(p) /\ Done(p) /\ AllOk(p)) =>
                  /\ Count(p, "read_remote_headers") = 1
                  /\ Count(p, "body") = 1
                  /\ Count(p, "put") = 1
            /\ (Called(p, "put") /\ EventOf(p, "put").ok /\ lastMut[KeyOf(p)] = p) =>
                  store[KeyOf(p)] = Some(EventOf(p, "put").args[2])

\* two invocations for one key both found no record, both fetched and both
\* put, with different records; both have returned and the store holds the
\* record of the one whose put came last
C17_Witness ==
    \E p, q \in Procs :
        /\ p # q /\ engine = "core"
        /\ GotNothing(p) /\ GotNothing(q) /\ KeyOf(p) = KeyOf(q)
        /\ Called(p, "body") /\ Called(q, "body")
        /\ Called(p, "put") /\ EventOf(p, "put").ok
        /\ Called(q, "put") /\ EventOf(q, "put").ok
        /\ EventOf(p, "put").args[2] # EventOf(q, "put").args[2]
        /\ Done(p) /\ Done(q)
        /\ lastMut[KeyOf(p)] = q
        /\ store[KeyOf(p)] = Some(EventOf(q, "put").args[2])

\* C18: no retry. In one invocation each store and fetcher operation is
\* called at most once, and a call that failed is the last call of the
\* invocation, so nothing is called again after a failure.
C18_NoRetry ==
    \A p \in Procs :
        /\ \A op \in StoreOps \cup FetcherOps : Count(p, op) <= 1
        /\ \A i \in DOMAIN calls[p] : ~calls[p][i].ok => i = Len(calls[p])

\* the body read failed after get and read_remote_headers succeeded, and the
\* invocation has returned the error
C18_Witness ==
    \E p \in Procs :
        /\ Done(p) /\ result[p].kind = "err"
        /\ HeadersRead(p)
        /\ Called(p, "body") /\ ~EventOf(p, "body").ok
        /\ Count(p, "get") = 1 /\ Count(p, "read_remote_headers") = 1
        /\ Count(p, "body") = 1

\* invocation p has returned CacheMiss or CacheUpdate, its put is the last
\* write under the key, and invocation q is about to call get for that key
C19_Follows(p, q) ==
    /\ p # q /\ engine = "core"
    /\ Done(p) /\ result[p].kind = "ok"
    /\ result[p].outcome \in {"CacheMiss", "CacheUpdate"}
    /\ Called(p, "put") /\ EventOf(p, "put").ok
    /\ pc[q] = "get" /\ cache_key[q] = Some(KeyOf(p))
    /\ lastMut[KeyOf(p)] = p

\* C19 (core engine): when an invocation calls get after another one has
\* returned CacheMiss or CacheUpdate with response r for the same key, and
\* get succeeds, the keep function is called with r and with exactly the
\* call_timestamp and expiration_time that the earlier invocation wrote, and
\* if it answers Keep the invocation returns (Some(r), CacheHit).
C19_Step ==
    \A p, q \in Procs :
        (C19_Follows(p, q) /\ calls'[q] # calls[q]) =>
            LET written == EventOf(p, "put").args[2]
                got == calls'[q][Len(calls[q]) + 1]
            IN
            /\ got.op = "get"
            /\ got.ok =>
                  /\ got.val = Some(written)
                  /\ Len(calls'[q]) = Len(calls[q]) + 2
                  /\ LET keep == calls'[q][Len(calls[q]) + 2] IN
                     /\ keep.op = "cache_keep_fn"
                     /\ keep.args[1] = request[q]
                     /\ keep.args[2] = Unwrap(result[p].response)
                     /\ keep.args[3] = written.call_timestamp
                     /\ keep.args[4] = written.expiration_time
                     /\ keep.val = "Keep" =>
                           result'[q] = Ok(result[p].response, "CacheHit")

C19_HitAfterWrite == [][C19_Step]_vars

\* an invocation has written a record with an expiration date and returned
\* CacheMiss; the other one got that record, its keep function said Keep and
\* it returned CacheHit
C19_Witness ==
    \E p, q \in Procs :
        /\ p # q /\ engine = "core"
        /\ Done(p) /\ result[p].outcome = "CacheMiss"
        /\ Called(p, "put") /\ EventOf(p, "put").ok
        /\ IsSome(EventOf(p, "put").args[2].expiration_time)
        /\ Done(q) /\ KeepSaid(q, "Keep") /\ result[q].outcome = "CacheHit"
        /\ RecordGot(q) = EventOf(p, "put").args[2]
        /\ result[q].response = result[p].response

\* C20: an invocation that returns successfully with no response has not
\* called read_remote_headers, and every invocation that called
\* read_remote_headers and returns successfully returns Some(response).
C20_NoneMeansNoFetch ==
    \A p \in Procs :
        (Done(p) /\ result[p].kind = "ok") =>
            /\ result[p].response = None => ~Called(p, "read_remote_headers")
            /\ Called(p, "read_remote_headers") => IsSome(result[p].response)

\* one invocation returned no response after Evict without a fetch, another
\* fetched and returned the response with CacheOff
C20_Witness ==
    \E p, q \in Procs :
        /\ Done(p) /\ result[p] = Ok(None, "CacheEvict")
        /\ ~Called(p, "read_remote_headers")
        /\ Done(q) /\ result[q].kind = "ok" /\ result[q].outcome = "CacheOff"
        /\ Called(q, "read_remote_headers") /\ IsSome(result[q].response)

\* C21: when the outcome is CacheEvict the remote has been called in the
\* invocation and the returned response is the data retrieved from it.
C21_EvictReturnsRemoteData ==
    \A p \in Procs :
        (Done(p) /\ result[p].kind = "ok" /\ result[p].outcome = "CacheEvict") =>
            /\ HeadersRead(p)
            /\ IsSome(result[p].response)

\* C22: after an invocation whose keep decision was Update and whose
\* expiration decision was NoCache, with no write of another invocation in
\* between, the store holds no record for the key.
C22_NoCacheAfterUpdateEvicts ==
    \A p \in Procs :
        ( /\ Done(p) /\ AllOk(p)
          /\ KeepSaid(p, "Update") /\ DecidedNoCache(p)
          /\ lastMut[KeyOf(p)] \in {"-", p} ) =>
            store[KeyOf(p)] = None

\* C23: in the legacy engine an invocation that returns CacheMiss or
\* CacheUpdate has run store.put to completion, and one that returns
\* CacheEvict has run store.delete to completion.
C23_LegacyOutcomeReportsStoreEffect ==
    \A p \in Procs :
        (engine = "legacy" /\ Done(p) /\ result[p].kind = "ok") =>
            /\ result[p].outcome \in {"CacheMiss", "CacheUpdate"} =>
                  (Called(p, "put") /\ EventOf(p, "put").ok)
            /\ result[p].outcome = "CacheEvict" =>
                  (Called(p, "delete") /\ EventOf(p, "delete").ok)

\* C24 (legacy engine): with no key function every invocation returns
\* (None, CacheOff) at once, with no call at all; with no keep function every
\* invocation whose get returned a record returns that record's response with
\* CacheHit, without a fetch.
C24_LegacyDefaults ==
    \A p \in Procs :
        engine = "legacy" =>
            /\ ~config.key_fn =>
                  /\ calls[p] = <<>>
                  /\ pc[p] \in {"idle", "done"}
                  /\ Done(p) => result[p] = Ok(None, "CacheOff")
            /\ (config.cache_keep_fn = "unset" /\ GotRecord(p)) =>
                  /\ Done(p)
                  /\ result[p] = Ok(Some(RecordGot(p).http_response), "CacheHit")
                  /\ ~Called(p, "cache_keep_fn")
                  /\ ~Called(p, "read_remote_headers")

\* with no keep function the legacy engine has served the record under the key
C24_Witness ==
    \E p \in Procs :
        /\ engine = "legacy" /\ config.key_fn /\ config.cache_keep_fn = "unset"
        /\ GotRecord(p) /\ Done(p) /\ result[p].outcome = "CacheHit"

\* C25: every call of a policy function (key, keep, expiration, time source)
\* receives the additional-parameters value of the configuration, as its last
\* argument.
C25_ParamsToEveryPolicyCall ==
    \A p \in Procs :
        \A i \in DOMAIN calls[p] :
            calls[p][i].op \in {"key_fn"} \cup PolicyOps =>
                /\ Len(calls[p][i].args) > 0
                /\ calls[p][i].args[Len(calls[p][i].args)] = Params

\* C26: status_category maps every 16-bit status to its range: 100 to 199
\* gives Status1xx, 200 to 299 Status2xx, 300 to 399 Status3xx, 400 to 499
\* Status4xx, 500 to 599 Status5xx, every other value StatusUnknown.
C26_StatusCategoryRanges ==
    IsSome(category) =>
        /\ status \in Statuses
        /\ (status \in 100..199) <=> (Unwrap(category) = "Status1xx")
        /\ (status \in 200..299) <=> (Unwrap(category) = "Status2xx")
        /\ (status \in 300..399) <=> (Unwrap(category) = "Status3xx")
        /\ (status \in 400..499) <=> (Unwrap(category) = "Status4xx")
        /\ (status \in 500..599) <=> (Unwrap(category) = "Status5xx")
        /\ (status \in (0..99) \cup (600..65535)) <=> (Unwrap(category) = "StatusUnknown")
        /\ Unwrap(category) \in HttpResponseStatus

\* the largest 16-bit status has been categorised as unknown
C26_Witness ==
    status = 65535 /\ category = Some("StatusUnknown")

\* C27, the state part (core engine): while an invocation is on the Update
\* path and nothing has been written under its key, the record that its get
\* returned is still in the store unchanged, also when the invocation has
\* returned the error of a failed read_remote_headers or body.
C27_OldRecordState ==
    \A p \in Procs :
        (engine = "core" /\ KeepSaid(p, "Update") /\ lastMut[KeyOf(p)] = "-") =>
            store[KeyOf(p)] = Some(RecordGot(p))

\* C27, the step part: a step of an invocation on the Update path changes
\* the store only if it is its successful put, and a step that returns an
\* error leaves the store as it was; a get of another invocation for the key,
\* made while this one is fetching, returns the old record.
C27_OldRecordStep ==
    /\ \A p \in Procs :
          (engine = "core" /\ KeepSaid(p, "Update") /\ StepOf(p)) =>
              /\ store' # store => (pc[p] = "put" /\ result'[p].kind = "ok")
              /\ (pc'[p] = "done" /\ result'[p].kind = "err") => store' = store
    /\ \A p, q \in Procs :
          ( /\ p # q /\ engine = "core" /\ KeepSaid(p, "Update")
            /\ pc[p] \in {"headers", "body", "put"}
            /\ pc[q] = "get" /\ cache_key[q] = Some(KeyOf(p))
            /\ lastMut[KeyOf(p)] = "-"
            /\ calls'[q] # calls[q] ) =>
              LET got == calls'[q][Len(calls[q]) + 1] IN
              got.ok => got.val = Some(RecordGot(p))

C27_UpdateKeepsOldRecord == [](C27_OldRecordState) /\ [][C27_OldRecordStep]_vars

\* an invocation on the Update path has returned the error of a failed body
\* read; the other invocation got the old record meanwhile and the store
\* still holds it
C27_Witness ==
    \E p, q \in Procs :
        /\ p # q /\ engine = "core"
        /\ KeepSaid(p, "Update") /\ Called(p, "body") /\ ~EventOf(p, "body").ok
        /\ Done(p) /\ result[p].kind = "err"
        /\ GotRecord(q) /\ KeyOf(q) = KeyOf(p) /\ RecordGot(q) = RecordGot(p)
        /\ store[KeyOf(p)] = Some(RecordGot(p))

\* the store mutations an invocation has asked for
Mutations(p) ==
    Cardinality({i \in DOMAIN calls[p] :
        calls[p][i].op \in {"put", "delete", "put_unawaited", "delete_unawaited"}})

\* C28: an invocation with a key calls get exactly once (it has, as soon as
\* it is past that await) and asks for at most one store mutation: never both
\* put and delete, and neither of them on the Skip and Keep paths.
C28_OneGetOneMutation ==
    \A p \in Procs :
        Keyed(p) =>
            /\ Count(p, "get") = IF pc[p] = "get" THEN 0 ELSE 1
            /\ Mutations(p) <= 1
            /\ ~(Called(p, "put") /\ Called(p, "delete"))
            /\ (KeepSaid(p, "Skip") \/ KeepSaid(p, "Keep")) => Mutations(p) = 0

\* one invocation has returned CacheUpdate after one get and one put, the
\* other has returned on the Keep path after one get and no mutation
C28_Witness ==
    \E p, q \in Procs :
        /\ engine = "core"
        /\ Done(p) /\ result[p].outcome = "CacheUpdate"
        /\ Count(p, "get") = 1 /\ Count(p, "put") = 1 /\ Mutations(p) = 1
        /\ Done(q) /\ KeepSaid(q, "Keep") /\ Count(q, "get") = 1 /\ Mutations(q) = 0

\* the records a store may hold under key k at the start
InitialRecords(k) == {Unwrap(s[k]) : s \in {t \in InitStores : IsSome(t[k])}}

\* the records an invocation for key k writes: its request, a head and a
\* body read from the fetcher
WrittenRecords(k) ==
    { CacheData(ts, exp, req, HTTPResponse(head, body)) :
        ts \in Times,
        exp \in {None} \cup {Some(t) : t \in ExpirationDates},
        req \in {r \in Requests : KeyFn(r, Params) = Key(k)},
        head \in RemoteHeads,
        body \in RemoteBodies }

\* C29, the state part: a response returned with CacheHit is the response of
\* the record that get returned, which is a record the store held initially
\* or one written for that key with a body read from the fetcher, never a
\* headers-only response; and the store holds no other kind of record.
C29_HitState ==
    /\ \A p \in Procs :
          (Done(p) /\ result[p].kind = "ok" /\ result[p].outcome = "CacheHit") =>
              /\ GotRecord(p)
              /\ result[p].response = Some(RecordGot(p).http_response)
              /\ RecordGot(p) \in InitialRecords(KeyOf(p)) \cup WrittenRecords(KeyOf(p))
              /\ RecordGot(p).http_response.body # EmptyBody
    /\ \A k \in Keys :
          IsSome(store[k]) =>
              /\ Unwrap(store[k]) \in InitialRecords(k) \cup WrittenRecords(k)
              /\ lastMut[k] = "-" => Unwrap(store[k]) \in InitialRecords(k)

\* C29, the step part: a record enters the store only by a successful put of
\* an invocation for that key, and it holds the head and the body that this
\* invocation read; a successful get returns what the store holds.
C29_HitStep ==
    /\ \A k \in Keys :
          (store'[k] # store[k] /\ IsSome(store'[k])) =>
              \E p \in Procs :
                  /\ Keyed(p) /\ KeyOf(p) = k
                  /\ Called(p, "body") /\ EventOf(p, "body").ok
                  /\ Len(calls'[p]) = Len(calls[p]) + 1
                  /\ LET e == calls'[p][Len(calls'[p])] IN
                     /\ e.op = "put" /\ e.ok
                     /\ e.args = <<k, Unwrap(store'[k])>>
                     /\ e.args[2].http_response = Fetched(p)
    /\ \A q \in Procs :
          (pc[q] = "get" /\ calls'[q] # calls[q]) =>
              LET got == calls'[q][Len(calls[q]) + 1] IN
              got.ok => got.val = store[Unwrap(cache_key[q])]

C29_HitServesStoredRecord == [](C29_HitState) /\ [][C29_HitStep]_vars

\* one invocation has replaced the record under the key, the other got the
\* new record and returned its response with CacheHit
C29_Witness ==
    \E p, q \in Procs :
        /\ p # q /\ engine = "core"
        /\ GotRecord(p) /\ Called(p, "put") /\ EventOf(p, "put").ok
        /\ Done(q) /\ result[q].kind = "ok" /\ result[q].outcome = "CacheHit"
        /\ RecordGot(q) = EventOf(p, "put").args[2]
        /\ RecordGot(q) # RecordGot(p)

\* invocation p returned CacheUpdate and invocation q returned CacheEvict for
\* the same key
C30_UpdateAndEvict(p, q) ==
    /\ p # q /\ engine = "core"
    /\ Done(p) /\ result[p].kind = "ok" /\ result[p].outcome = "CacheUpdate"
    /\ Called(p, "put") /\ EventOf(p, "put").ok
    /\ Done(q) /\ result[q] = Ok(None, "CacheEvict")
    /\ Called(q, "delete") /\ EventOf(q, "delete").ok
    /\ KeyOf(p) = KeyOf(q)

\* C30 (core engine): the put of an invocation on the Update path is never
\* held back by an eviction, and when an updating and an evicting invocation
\* for one key have both returned, the store holds what the later of the two
\* writes left: the updated record if the put came last, no record if the
\* delete came last.
C30_EvictionCanBeUndone ==
    /\ \A p \in Procs :
          (engine = "core" /\ KeepSaid(p, "Update") /\ pc[p] = "put") => ENABLED Put(p)
    /\ \A p, q \in Procs :
          C30_UpdateAndEvict(p, q) =>
              /\ lastMut[KeyOf(p)] \in {p, q}
              /\ lastMut[KeyOf(p)] = p => store[KeyOf(p)] = Some(EventOf(p, "put").args[2])
              /\ lastMut[KeyOf(p)] = q => store[KeyOf(p)] = None

\* both invocations got the old record; the eviction was applied first and
\* the put of the updating invocation afterwards; both have returned and the
\* store holds a record for the key
C30_Witness ==
    \E p, q \in Procs :
        /\ C30_UpdateAndEvict(p, q)
        /\ RecordGot(p) = RecordGot(q)
        /\ lastMut[KeyOf(p)] = p
        /\ IsSome(store[KeyOf(p)])

\* the calls whose results are the inputs of an invocation, with its request
InputOps ==
    {"key_fn", "get", "cache_keep_fn", "delete", "read_remote_headers",
     "cache_policy_fn", "body", "time_now_fn", "put"}

\* two invocations were given the same request and, wherever both made the
\* same call, the same result
SameInputs(p, q) ==
    /\ request[p] = request[q]
    /\ \A op \in InputOps :
          (Called(p, op) /\ Called(q, op)) =>
              /\ EventOf(p, op).ok = EventOf(q, op).ok
              /\ EventOf(p, op).val = EventOf(q, op).val

\* the calls an invocation issued, with their arguments, in order
Issued(p) == [i \in DOMAIN calls[p] |-> <<calls[p][i].op, calls[p][i].args>>]

\* C31 (core engine): two invocations that were given the same request and
\* the same results of their store, policy and fetcher calls have returned
\* the same result (response and outcome, or error) and have issued the same
\* sequence of calls with the same arguments, whether they ran one after the
\* other or interleaved.
C31_Deterministic ==
    \A p, q \in Procs :
        (engine = "core" /\ Done(p) /\ Done(q) /\ SameInputs(p, q)) =>
            /\ result[p] = result[q]
            /\ Issued(p) = Issued(q)

\* two invocations with the same request both missed, fetched the same
\* response and put the same record
C31_Witness ==
    \E p, q \in Procs :
        /\ p # q /\ engine = "core"
        /\ Done(p) /\ Done(q) /\ SameInputs(p, q)
        /\ Called(p, "put") /\ Called(q, "put")
        /\ EventOf(p, "put").ok /\ EventOf(q, "put").ok
        /\ result[p] = result[q]

\* C33: the time-source function is called at most once in an invocation,
\* directly after a body read that succeeded and with an expiration decision
\* other than NoCache, and the next call of the invocation is put; it is not
\* called on the NoKey, Skip, Keep, Evict and NoCache paths nor after a
\* failure of get, read_remote_headers or body.
C33_TimeSourceOnlyBeforePut ==
    \A p \in Procs :
        /\ Count(p, "time_now_fn") <= 1
        /\ Called(p, "time_now_fn") =>
              /\ engine = "core"
              /\ OnFetchPath(p) /\ HeadersRead(p) /\ DecidedCacheable(p)
              /\ Called(p, "body") /\ EventOf(p, "body").ok
              /\ IndexOf(p, "time_now_fn") = IndexOf(p, "body") + 1
              /\ \/ pc[p] = "put" /\ IndexOf(p, "time_now_fn") = Len(calls[p])
                 \/ Called(p, "put") /\ IndexOf(p, "put") = IndexOf(p, "time_now_fn") + 1
        /\ ( \/ YieldedNoKey(p)
             \/ \E d \in {"Skip", "Keep", "Evict"} : KeepSaid(p, d)
             \/ DecidedNoCache(p)
             \/ \E op \in {"get", "read_remote_headers", "body"} :
                   Called(p, op) /\ ~EventOf(p, op).ok ) =>
              ~Called(p, "time_now_fn")
        /\ Called(p, "put") => Called(p, "time_now_fn")

\* one invocation has read the time after its body read and is about to put,
\* the other has returned on the NoCache path with the body read and no call
\* of the time source
C33_Witness ==
    \E p, q \in Procs :
        /\ pc[p] = "put" /\ Called(p, "time_now_fn") /\ ~Called(p, "put")
        /\ Done(q) /\ DecidedNoCache(q) /\ Called(q, "body") /\ EventOf(q, "body").ok
        /\ ~Called(q, "time_now_fn")

\* the awaits at which an invocation can be suspended
Awaiting == {"get", "delete", "headers", "body", "put"}

\* how far an invocation has come
PcRank(l) ==
    CASE l = "get" -> 1
      [] l = "delete" -> 2
      [] l = "headers" -> 2
      [] l = "body" -> 3
      [] l = "put" -> 4
      [] l = "done" -> 5
      [] OTHER -> 0

\* C32, the counts: an invocation makes each of its calls at most once, and
\* not both a put and a delete.
C32_AtMostOnce ==
    \A p \in Procs :
        /\ \A op \in InputOps : Count(p, op) <= 1
        /\ Mutations(p) <= 1

\* C32, the steps: every step of an invocation that is under way takes it
\* forward, to a later await or to its return; none leads back.
C32_Forward ==
    \A p \in Procs :
        (pc[p] \in Awaiting /\ StepOf(p)) => PcRank(pc'[p]) > PcRank(pc[p])

\* C32: every invocation terminates. Provided each call it awaits returns, an
\* invocation that is under way reaches its return (a response with an
\* outcome, or an error), after at most one call of each kind and with no
\* way back to an earlier step.
C32_Terminates ==
    /\ [](C32_AtMostOnce)
    /\ [][C32_Forward]_vars
    /\ \A p \in Procs : (pc[p] \in Awaiting) ~> Done(p)

\* an invocation has returned after the longest path: get, keep decision,
\* header read, expiration decision, body read, time source and put
C32_Witness ==
    \E p \in Procs :
        /\ Done(p) /\ result[p].kind = "ok"
        /\ \A op \in {"get", "cache_keep_fn", "read_remote_headers", "cache_policy_fn",
                      "body", "time_now_fn", "put"} : Count(p, op) = 1
        /\ Len(calls[p]) = 8

TypeOK ==
    /\ engine \in {"core", "legacy"}
    /\ started \in 0..MaxInvocations
    /\ \A p \in Procs : pc[p] \in {"idle", "get", "delete", "headers", "body", "put", "done"}
    /\ status \in Statuses
    /\ category \in {None} \cup {Some(c) : c \in HttpResponseStatus}

====
